---- MODULE Spec2Model ----
(***************************************************************************)
(* youtube_saver: the incremental playlist saver of src/main.py.           *)
(*                                                                         *)
(* File names are sequences of tokens: one token per character of an id    *)
(* or a title, and one token for each literal piece of a name the code     *)
(* builds ("[failed] - ", " [", "]", ".txt", ...).  "id in x" is the       *)
(* substring test on such sequences, x.endswith(".txt") the test of the    *)
(* last token.  A directory is the set of its files; a file is a record    *)
(* of its name and its body.                                               *)
(***************************************************************************)
EXTENDS Integers, Sequences, FiniteSets, TLC

VARIABLES
    dest,            \* config.DownloadDirectory: set of files
    scratch,         \* config.TemporaryDownloads: set of file names
    pc,              \* position of the run in main()/download()
    runs,            \* number of runs of main() started so far
    queued,          \* number of entries queued for processing so far, over all runs
    config,          \* Config of the current run (AudioOnly, RetryFailed)
    listing,         \* fetchNewEntries.info["entries"]: the items consumed so far
    result,          \* NewEntriesResult: TotalIds, HasSeen, FailuresToRetry
    newEntries,      \* fetchNewEntries.newEntries: the entries the generator has yet to take
    reported,        \* the two counts have been printed
    retryIdx,        \* position of the loop of main.py:288
    genIdx,          \* entries __fetchGenerator has taken from newEntries
    entry,           \* the entry download() is working on
    yielded,         \* the queued entries the generator has yielded in this run
    skipped,         \* the ids of the entries it has passed over with a marker
    ytdlIdx,         \* position of the loop of main.py:303
    retriesLeft,     \* downloadUrl.retriesLeft
    success,         \* download.success
    exceptions,      \* download.exceptions
    calls,           \* engine calls of the current downloadUrl call
    progress,        \* download.progress
    clearLog,        \* the last clearDir call gave up with files left
    fatal,           \* the exception that ended the run, or "none"
    info,            \* __fetchGenerator.info: what the last deep fetch returned
    scanId,          \* scanner specification: the id last asked about
    scanRes,         \* scanner specification: what the call returned
    scanPrev,        \* scanner specification: the directory before the call
    args,            \* parseArgs.args: the command line of the run
    clr              \* clearDir: retries, and the passes and sleeps so far

vars == <<dest, scratch, pc, runs, queued, config, listing, result, newEntries,
          reported, retryIdx, genIdx, entry, yielded, skipped, ytdlIdx,
          retriesLeft, success, exceptions, calls, progress, clearLog, fatal,
          info, scanId, scanRes, scanPrev, args, clr>>

runVars == <<scratch, pc, runs, queued, config, listing, result, newEntries,
             reported, retryIdx, genIdx, entry, yielded, skipped, ytdlIdx,
             retriesLeft, success, exceptions, calls, progress, clearLog, fatal,
             info>>

scanVars == <<scanId, scanRes, scanPrev>>

\* the variables only the specifications of single functions change
unitVars == <<scanVars, args, clr>>

----------------------------------------------------------------------------
(* Bounds of the model *)

\* items in one listing
MaxList == 2
\* runs of main() in one behaviour
MaxRuns == 2
\* entries queued for processing in one behaviour
MaxEntries == 2
\* the largest known duration a listing reports
MaxDuration == 2
\* files of the directory the scanner specification starts from
MaxScanFiles == 3
\* the largest retries argument clearDir is called with on its own
MaxClearArg == 3

(* Program constants *)

\* downloadUrl: retriesLeft = 5
DownloadRetries == 5
\* clearDir(path, retries = 5)
ClearRetries == 5

----------------------------------------------------------------------------
(* Strings *)

\* Python's "sub in s" on token sequences
Contains(s, sub) ==
    \E i \in 0..(Len(s) - Len(sub)) :
        \A j \in 1..Len(sub) : s[i + j] = sub[j]

\* Python's s.endswith(suffix)
EndsWith(s, suffix) ==
    /\ Len(s) >= Len(suffix)
    /\ \A j \in 1..Len(suffix) : s[Len(s) - Len(suffix) + j] = suffix[j]

TxtExt == <<".txt">>

\* the tokens that are a file extension (a dot and what follows it)
ExtTokens == {".txt", ".mkv", ".opus", ".ogg", ".part"}

\* os.path.splitext(file)[0]: the name without its last extension
SplitextRoot(name) ==
    IF Len(name) > 1 /\ name[Len(name)] \in ExtTokens
    THEN SubSeq(name, 1, Len(name) - 1)
    ELSE name

\* yt_dlp.utils.sanitize_filename: a path separator becomes a harmless
\* character, every other token is kept
SanitizeFilename(title) ==
    [i \in 1..Len(title) |-> IF title[i] = "/" THEN "_" ELSE title[i]]

----------------------------------------------------------------------------
(* Ids, titles, listings *)

IdA == <<"a">>
IdB == <<"b">>
IdAB == <<"a", "b">>

\* the ids a listing of the run specification names
Ids == {IdA, IdB}

TitleOf(id) == <<"T", "/">>

\* Python's None and numbers, as one kind of value
NoneV == [none |-> TRUE, v |-> 0]
Num(n) == [none |-> FALSE, v |-> n]

\* the "duration" field of a listing item, when present
Durations == {NoneV} \cup {Num(n) : n \in -1..MaxDuration}

\* the items of a shallow listing: i["id"], i["title"], "duration" in i,
\* i["duration"]
Items ==
    { [id |-> id, title |-> TitleOf(id), hasDuration |-> TRUE, duration |-> d] :
          id \in Ids, d \in Durations }
    \cup
    { [id |-> id, title |-> TitleOf(id), hasDuration |-> FALSE, duration |-> NoneV] :
          id \in Ids }

----------------------------------------------------------------------------
(* Files *)

MediaBody == [kind |-> "media", status |-> "", exceptions |-> <<>>, raw |-> <<>>]

\* the path setStatus builds: f"[{status}] - {sanitize_filename(title)} [{id}].txt"
MarkerName(id, title, status) ==
    <<"[", status, "] - ">> \o SanitizeFilename(title) \o <<" [">> \o id \o <<"]", ".txt">>

\* the name the engine gives its output: "%(title)s [%(id)s].%(ext)s"
EngineName(id, title, ext) ==
    SanitizeFilename(title) \o <<" [">> \o id \o <<"]", ext>>

Names(dir) == {f.name : f \in dir}

\* open(path, "w") and write: any file of that name is replaced
WriteFile(dir, name, body) ==
    {f \in dir : f.name # name} \cup {[name |-> name, body |-> body]}

\* setStatus: the marker file and its text
setStatus(dir, id, title, status, extra) ==
    WriteFile(dir, MarkerName(id, title, status), extra)

\* json.dumps(raw_data), read as far as the claims go: which dictionary it
\* is (the listing item or the deep fetch's info) and of which id
JsonDumps(raw_data) == <<raw_data.src, raw_data.item.id>>

\* setStatusEx: the text holds a block per exception, when there are any,
\* and the raw info, when there is any
setStatusEx(dir, id, title, status, excs, raw_data) ==
    setStatus(dir, id, title, status,
              [kind |-> "marker", status |-> status,
               exceptions |-> excs, raw |-> JsonDumps(raw_data)])

----------------------------------------------------------------------------
(* Directory state scanner *)

Unprocessed == "Unprocessed"
OK == "OK"
Failed == "Failed"
InvalidState == "Invalid state for id"

GetStateMatches(dir, id) == {x \in Names(dir) : Contains(x, id)}

GetStateMutTwo(dir, id) ==
    LET matches == GetStateMatches(dir, id)
    IN  IF Cardinality(matches) = 0 THEN Unprocessed
        ELSE IF Cardinality(matches) > 2 THEN InvalidState
        ELSE IF \E x \in matches : EndsWith(x, TxtExt) THEN Failed
        ELSE OK

GetStateMutNoRaise(dir, id) ==
    LET matches == GetStateMatches(dir, id)
    IN  IF Cardinality(matches) = 0 THEN Unprocessed
        ELSE IF \E x \in matches : EndsWith(x, TxtExt) THEN Failed
        ELSE OK

GetState(dir, id) ==
    LET matches == GetStateMatches(dir, id)
    IN  IF Cardinality(matches) = 0 THEN Unprocessed
        ELSE IF Cardinality(matches) > 1 THEN InvalidState
        ELSE IF EndsWith(CHOOSE x \in matches : TRUE, TxtExt) THEN Failed
        ELSE OK

DeleteFailureMatches(dir, id) ==
    {x \in Names(dir) : EndsWith(x, TxtExt) /\ Contains(x, id)}

\* DeleteFailure raises when two or more marker files match
DeleteFailureRaises(dir, id) == Cardinality(DeleteFailureMatches(dir, id)) > 1

DeleteFailureMutAllMarkers(dir, id) ==
    IF Cardinality(DeleteFailureMatches(dir, id)) # 1 THEN dir
    ELSE {f \in dir : ~EndsWith(f.name, TxtExt)}

\* the directory after DeleteFailure (unchanged when it returns early or raises)
DeleteFailure(dir, id) ==
    LET matches == DeleteFailureMatches(dir, id)
    IN  IF Cardinality(matches) # 1 THEN dir
        ELSE {f \in dir : f.name # (CHOOSE x \in matches : TRUE)}

----------------------------------------------------------------------------
(* Scratch space manager *)

\* clearDir(path, retries): every way the passes can go.  In each pass the
\* deletions of some set F of the files fail; the pass leaves exactly F.
RECURSIVE ClearRun(_, _, _, _)
ClearRun(dir, retries, passes, sleeps) ==
    IF retries <= 0
    THEN {[left |-> dir, passes |-> passes, sleeps |-> sleeps]}
    ELSE UNION { IF F = {}
                 THEN ClearRun({}, 0, passes + 1, sleeps)
                 ELSE ClearRun(F, retries - 1, passes + 1, sleeps + 1) :
                 F \in SUBSET dir }

clearDir(dir) == ClearRun(dir, ClearRetries, 0, 0)

\* the call used up its retries: every pass had a deletion that failed
GaveUp(c) == c.sleeps = ClearRetries

----------------------------------------------------------------------------
(* Entries *)

\* durationLambda: d["duration"] if "duration" in d else 0
durationLambda(d) == IF d.hasDuration THEN d.duration ELSE Num(0)

\* the raw metadata of an entry: the listing item, or the info dictionary the
\* deep fetch returned for it
ListingRaw(item) == [src |-> "listing", item |-> item]
DeepRaw(e) ==
    [src |-> "deep",
     item |-> [id |-> e.id, title |-> e.title, hasDuration |-> TRUE,
               duration |-> e.duration]]

NoDate == <<>>

\* Entry(id=id, duration=durationLambda(i), title=i["title"], ..., raw_data=i,
\* state=state)
NewEntry(i, state) ==
    [id |-> i.id, duration |-> durationLambda(i), title |-> i.title,
     raw_data |-> ListingRaw(i), state |-> state,
     filesize |-> 0, uploadDate |-> NoDate]

\* Python truth of a number or None
Truthy(d) == ~d.none /\ d.v # 0

\* the sort key of main.py:192: x.duration or -1
SortKey(x) == IF Truthy(x.duration) THEN x.duration.v ELSE -1

\* list.sort(key=...): stable, ascending; s with x put after the last
\* element whose key is not larger
RECURSIVE Insert(_, _)
Insert(s, x) ==
    IF s = <<>> THEN <<x>>
    ELSE IF SortKey(s[Len(s)]) <= SortKey(x) THEN Append(s, x)
    ELSE Append(Insert(SubSeq(s, 1, Len(s) - 1), x), s[Len(s)])

SortMutUnsorted(s) == s

RECURSIVE SortEntries(_)
SortEntries(s) ==
    IF s = <<>> THEN <<>>
    ELSE Insert(SortEntries(SubSeq(s, 1, Len(s) - 1)), s[Len(s)])

\* the check of main.py:203: entry.duration is None or entry.duration == -1
InvalidDuration(e) == e.duration.none \/ e.duration.v = -1

\* the upload_date strings a deep fetch returns: "20230115", and one that is
\* a character short
GoodDate == <<2, 0, 2, 3, 0, 1, 1, 5>>
ShortDate == <<2, 0, 2, 3, 0, 1, 1>>
UploadDates == {GoodDate, ShortDate}

parseDateStringRaisesMutAlways(string) == TRUE

\* utils.parseDateString: the assertion on the length
parseDateStringRaises(string) == Len(string) # 8

\* int(string[a:b]) of a string of digits
RECURSIVE ToInt(_)
ToInt(digits) ==
    IF digits = <<>> THEN 0
    ELSE 10 * ToInt(SubSeq(digits, 1, Len(digits) - 1)) + digits[Len(digits)]

\* utils.parseDateString: datetime.date(int(s[0:4]), int(s[4:6]), int(s[6:8]))
parseDateString(string) ==
    <<ToInt(SubSeq(string, 1, 4)), ToInt(SubSeq(string, 5, 6)),
      ToInt(SubSeq(string, 7, 8))>>

----------------------------------------------------------------------------
(* The engine *)

\* getYtdlInstances_audio / getYtdlInstances_video: the "format" of each
\* configuration, in list order
getYtdlInstances_audio == <<"bestaudio">>
getYtdlInstances_video == <<"bestvideo+bestaudio", "bestvideo[ext=mp4]+bestaudio">>

Ytdls(cfg) == IF cfg.AudioOnly THEN getYtdlInstances_audio ELSE getYtdlInstances_video

\* the extension of the engine's output: preferredcodec opus, or
\* merge_output_format mkv
OutExt(cfg) == IF cfg.AudioOnly THEN ".opus" ELSE ".mkv"

OutName(e, cfg) == EngineName(e.id, e.title, OutExt(cfg))
PartName(e) == EngineName(e.id, e.title, ".part")

\* what a download call can leave in the current directory: on a zero
\* return nothing, the output, or the output and a leftover; otherwise
\* nothing or a leftover
EngineWrites(e, cfg, outcome) ==
    IF outcome = "zero"
    THEN {{}, {OutName(e, cfg)}, {OutName(e, cfg), PartName(e)}}
    ELSE {{}, {PartName(e)}}

DownloadError(k) == [from |-> "download", ytdl |-> k]
ExtractError == [from |-> "extract_info", ytdl |-> 0]

----------------------------------------------------------------------------
(* The run: main() and download() *)

NoEntry == NewEntry([id |-> <<>>, title |-> <<>>, hasDuration |-> FALSE,
                     duration |-> NoneV], Unprocessed)

NoResult == [TotalIds |-> 0, HasSeen |-> 0, FailuresToRetry |-> <<>>]

NoConfig == [AudioOnly |-> FALSE, RetryFailed |-> FALSE]

\* no deep fetch has returned in this turn of the generator
NoInfo == [upload_date |-> <<>>, returned |-> FALSE]

\* the info dictionary a deep fetch returned, as far as the generator reads it
Info(upload_date) == [upload_date |-> upload_date, returned |-> TRUE]

\* Python's None and strings, as one kind of value
NoneS == [none |-> TRUE, s |-> <<>>]
Str(s) == [none |-> FALSE, s |-> s]

\* the variables of parseArgs and clearDir, outside their specifications
NoArgs == [valid |-> FALSE, download_directory |-> <<>>, temp_directory |-> <<>>,
           clear_temp_directory |-> FALSE, audio_only |-> FALSE,
           retry_failed |-> FALSE, ffmpeg_path |-> NoneS, which |-> NoneS]
NoClr == [isdir |-> FALSE, given |-> 0, before |-> {}, retries |-> 0,
          passes |-> 0, sleeps |-> 0]

Init ==
    /\ dest = {}
    /\ scratch = {}
    /\ pc = "idle"
    /\ runs = 0
    /\ queued = 0
    /\ config = NoConfig
    /\ listing = <<>>
    /\ result = NoResult
    /\ newEntries = <<>>
    /\ reported = FALSE
    /\ retryIdx = 0
    /\ genIdx = 0
    /\ entry = NoEntry
    /\ yielded = <<>>
    /\ skipped = <<>>
    /\ ytdlIdx = 0
    /\ retriesLeft = 0
    /\ success = FALSE
    /\ exceptions = <<>>
    /\ calls = 0
    /\ progress = 0
    /\ clearLog = FALSE
    /\ fatal = "none"
    /\ info = NoInfo
    /\ scanId = <<>>
    /\ scanRes = ""
    /\ scanPrev = {}
    /\ args = NoArgs
    /\ clr = NoClr

\* the run has ended: main() returned, or an exception left it
Ended == pc \in {"idle", "done", "fatal"}

\* an exception leaves download() and main()
Raise(what) ==
    /\ pc' = "fatal"
    /\ fatal' = what

\* main(): the directories exist, clearDir(TemporaryDownloads), then
\* download() up to the call of extract_info in fetchNewEntries
StartRun ==
    /\ Ended
    /\ runs < MaxRuns
    /\ runs' = runs + 1
    /\ \E a \in BOOLEAN, r \in BOOLEAN :
           config' = [AudioOnly |-> a, RetryFailed |-> r]
    /\ \E c \in clearDir(scratch) :
           /\ scratch' = c.left
           /\ clearLog' = GaveUp(c)
    /\ pc' = "triage"
    /\ fatal' = "none"
    /\ listing' = <<>>
    /\ result' = NoResult
    /\ newEntries' = <<>>
    /\ reported' = FALSE
    /\ retryIdx' = 0
    /\ genIdx' = 0
    /\ entry' = NoEntry
    /\ yielded' = <<>>
    /\ skipped' = <<>>
    /\ ytdlIdx' = 0
    /\ retriesLeft' = 0
    /\ success' = FALSE
    /\ exceptions' = <<>>
    /\ calls' = 0
    /\ progress' = 0
    /\ info' = NoInfo
    /\ UNCHANGED <<dest, queued, unitVars>>

AlreadySeenMutNoRetry(state, cfg) == state = OK \/ state = Failed

AlreadySeenMutAlwaysRetry(state, cfg) == state = OK

\* the skip test of main.py:183
AlreadySeen(state, cfg) == state = OK \/ (state = Failed /\ ~cfg.RetryFailed)

\* one turn of the loop of main.py:178, for the item i of the listing
TriageItem(i) ==
    /\ pc = "triage"
    /\ Len(listing) < MaxList
    /\ listing' = Append(listing, i)
    /\ LET state == GetState(dest, i.id)
           counted == [result EXCEPT !.TotalIds = @ + 1]
       IN  IF state = InvalidState
           THEN /\ Raise(InvalidState)
                /\ result' = counted
                /\ UNCHANGED <<newEntries, queued>>
           ELSE IF AlreadySeen(state, config)
           THEN /\ result' = [counted EXCEPT !.HasSeen = @ + 1]
                /\ UNCHANGED <<newEntries, queued, pc, fatal>>
           ELSE /\ queued < MaxEntries
                /\ queued' = queued + 1
                /\ result' =
                       IF state = Failed
                       THEN [counted EXCEPT !.FailuresToRetry = Append(@, i.id)]
                       ELSE counted
                /\ newEntries' = Append(newEntries, NewEntry(i, state))
                /\ UNCHANGED <<pc, fatal>>
    /\ UNCHANGED <<dest, scratch, runs, config, reported, retryIdx, genIdx,
                   entry, yielded, skipped, ytdlIdx, retriesLeft, success, exceptions,
                   calls, progress, clearLog, info, unitVars>>

\* the listing is exhausted: newEntries.sort, the generator is made,
\* fetchNewEntries returns
TriageEnd ==
    /\ pc = "triage"
    /\ newEntries' = SortEntries(newEntries)
    /\ listing' = <<>>
    /\ pc' = "report"
    /\ UNCHANGED <<dest, scratch, runs, queued, config, result, reported,
                   retryIdx, genIdx, entry, yielded, skipped, ytdlIdx, retriesLeft,
                   success, exceptions, calls, progress, clearLog, fatal,
                   info, unitVars>>

AfterReportMutNoDelete(failuresToRetry) == "fetch"

\* main.py:287: if result.FailuresToRetry, the loop of deletions comes next
AfterReport(failuresToRetry) ==
    IF failuresToRetry # <<>> THEN "retry" ELSE "fetch"

\* main.py:282-287: the counts are printed
Report ==
    /\ pc = "report"
    /\ reported' = TRUE
    /\ pc' = AfterReport(result.FailuresToRetry)
    /\ UNCHANGED <<dest, scratch, runs, queued, config, listing, result, newEntries,
                   retryIdx, genIdx, entry, yielded, skipped, ytdlIdx, retriesLeft,
                   success, exceptions, calls, progress, clearLog, fatal,
                   info, unitVars>>

\* one turn of the loop of main.py:288
DeleteRetry ==
    /\ pc = "retry"
    /\ LET id == result.FailuresToRetry[retryIdx + 1]
       IN  IF DeleteFailureRaises(dest, id)
           THEN /\ Raise(InvalidState)
                /\ UNCHANGED <<dest, retryIdx>>
           ELSE /\ dest' = DeleteFailure(dest, id)
                /\ retryIdx' = retryIdx + 1
                /\ pc' = IF retryIdx + 1 = Len(result.FailuresToRetry)
                         THEN "fetch" ELSE "retry"
                /\ UNCHANGED fatal
    /\ UNCHANGED <<scratch, runs, queued, config, listing, result, newEntries,
                   reported, genIdx, entry, yielded, skipped, ytdlIdx, retriesLeft,
                   success, exceptions, calls, progress, clearLog, info, unitVars>>

----------------------------------------------------------------------------
(* The enrichment stream: __fetchGenerator, resumed by the loop of          *)
(* main.py:297                                                              *)

NextQueued == Head(newEntries)

\* the generator has no entry left: the loop of download() ends, main()
\* returns
FetchExhausted ==
    /\ pc = "fetch"
    /\ newEntries = <<>>
    /\ pc' = "done"
    /\ info' = NoInfo
    /\ UNCHANGED <<dest, scratch, runs, queued, config, listing, result, newEntries,
                   reported, retryIdx, genIdx, entry, yielded, skipped, ytdlIdx,
                   retriesLeft, success, exceptions, calls, progress,
                   clearLog, fatal, unitVars>>

\* what the generator does when extract_info raises (main.py:199-201)
AfterFetchRaisesMutAbort(e) ==
    /\ Raise("ExtractError")
    /\ UNCHANGED <<dest, skipped>>

AfterFetchRaises(e) ==
    /\ dest' = setStatusEx(dest, e.id, e.title, "failed", <<ExtractError>>, e.raw_data)
    /\ skipped' = Append(skipped, e.id)
    /\ UNCHANGED <<pc, fatal>>

\* the deep fetch of the next entry raises
FetchRaises ==
    /\ pc = "fetch"
    /\ newEntries # <<>>
    /\ newEntries' = Tail(newEntries)
    /\ genIdx' = genIdx + 1
    /\ info' = NoInfo
    /\ AfterFetchRaises(NextQueued)
    /\ UNCHANGED <<scratch, runs, queued, config, listing, result,
                   reported, retryIdx, entry, yielded, ytdlIdx, retriesLeft,
                   success, exceptions, calls, progress, clearLog, unitVars>>

\* the entry as the generator yields it (main.py:208-210)
Enriched(e, upload_date) ==
    [e EXCEPT !.filesize = 1,
              !.uploadDate = parseDateString(upload_date),
              !.raw_data = DeepRaw(e)]

\* the deep fetch of the next entry returns info, with info["upload_date"]
FetchReturns(upload_date) ==
    /\ pc = "fetch"
    /\ newEntries # <<>>
    /\ newEntries' = Tail(newEntries)
    /\ genIdx' = genIdx + 1
    /\ info' = Info(upload_date)
    /\ LET e == NextQueued
       IN  IF InvalidDuration(e)
           THEN /\ dest' = setStatusEx(dest, e.id, e.title, "invalid-duration",
                                       <<>>, e.raw_data)
                /\ skipped' = Append(skipped, e.id)
                /\ UNCHANGED <<pc, fatal, entry, yielded, ytdlIdx, retriesLeft,
                               success, exceptions, calls>>
           ELSE IF parseDateStringRaises(upload_date)
           THEN /\ Raise("AssertionError: parseDateString")
                /\ UNCHANGED <<dest, entry, yielded, skipped, ytdlIdx, retriesLeft,
                               success, exceptions, calls>>
           ELSE /\ entry' = Enriched(e, upload_date)
                /\ yielded' = Append(yielded, e)
                /\ pc' = "download"
                /\ success' = FALSE
                /\ exceptions' = <<>>
                /\ ytdlIdx' = 0
                /\ retriesLeft' = DownloadRetries
                /\ calls' = 0
                /\ UNCHANGED <<dest, fatal, skipped>>
    /\ UNCHANGED <<scratch, runs, queued, config, listing, result,
                   reported, retryIdx, progress, clearLog, unitVars>>

----------------------------------------------------------------------------
(* The orchestrator: the body of the loop of main.py:297                    *)

\* ytdl.download([url]) returns 0: downloadUrl returns True, break
DownloadZero ==
    /\ pc = "download"
    /\ \E w \in EngineWrites(entry, config, "zero") : scratch' = scratch \cup w
    /\ calls' = calls + 1
    /\ success' = TRUE
    /\ pc' = "finish"
    /\ UNCHANGED <<dest, runs, queued, config, listing, result, newEntries, reported,
                   retryIdx, genIdx, entry, yielded, skipped, ytdlIdx, retriesLeft,
                   exceptions, progress, clearLog, fatal, info, unitVars>>

\* where download() goes when downloadUrl returns False (main.py:305-306)
AfterGiveUp == "finish"

WhileRetriesMutOneMore(r) == r >= 0

\* the loop condition of downloadUrl: retriesLeft > 0
WhileRetries(r) == r > 0

\* ytdl.download([url]) returns a non-zero signal: retriesLeft -= 1, and
\* with none left downloadUrl returns False
DownloadNonZero ==
    /\ pc = "download"
    /\ \E w \in EngineWrites(entry, config, "nonzero") : scratch' = scratch \cup w
    /\ calls' = calls + 1
    /\ retriesLeft' = retriesLeft - 1
    /\ IF WhileRetries(retriesLeft - 1)
       THEN UNCHANGED <<pc, success>>
       ELSE /\ success' = FALSE
            /\ pc' = AfterGiveUp
    /\ UNCHANGED <<dest, runs, queued, config, listing, result, newEntries, reported,
                   retryIdx, genIdx, entry, yielded, skipped, ytdlIdx, exceptions,
                   progress, clearLog, fatal, info, unitVars>>

ExceptHandlerMutKeepLast(excs, k) == <<DownloadError(k)>>

\* exceptions.append(e) of main.py:308, for the exception configuration k raised
ExceptHandler(excs, k) == Append(excs, DownloadError(k))

NextYtdlMutSame(k) == k

\* the loop of main.py:303 after the handler: the next element of ytdls
NextYtdl(k) == k + 1

\* ytdl.download([url]) raises: the handler of main.py:307-309, then the
\* next configuration, if any
DownloadRaises ==
    /\ pc = "download"
    /\ exceptions' = ExceptHandler(exceptions, ytdlIdx + 1)
    /\ \E w \in EngineWrites(entry, config, "raise") :
       \E c \in clearDir(scratch \cup w) :
           /\ scratch' = c.left
           /\ clearLog' = GaveUp(c)
    /\ ytdlIdx' = NextYtdl(ytdlIdx)
    /\ IF NextYtdl(ytdlIdx) < Len(Ytdls(config))
       THEN /\ retriesLeft' = DownloadRetries
            /\ calls' = 0
            /\ UNCHANGED pc
       ELSE /\ pc' = "finish"
            /\ calls' = calls + 1
            /\ UNCHANGED retriesLeft
    /\ UNCHANGED <<dest, runs, queued, config, listing, result, newEntries, reported,
                   retryIdx, genIdx, entry, yielded, skipped, success, progress, fatal,
                   info, unitVars>>

\* the turn of the loop of main.py:297 is over: the locals of the turn are
\* dead, and have the values the next turn starts with (main.py:298-299)
EndOfTurn ==
    /\ success' = FALSE
    /\ exceptions' = <<>>
    /\ ytdlIdx' = 0
    /\ retriesLeft' = 0
    /\ calls' = 0
    /\ info' = NoInfo

NewFileMutKeepName(file, cfg) == file

\* the name the artifact gets in the download directory (main.py:318-322)
NewFile(file, cfg) ==
    IF cfg.AudioOnly THEN SplitextRoot(file) \o <<".ogg">> ELSE file

\* main.py:313-324: the assertion, then shutil.move
FinishSuccess ==
    /\ pc = "finish"
    /\ success
    /\ progress' = progress + 1
    /\ IF Cardinality(scratch) # 1
       THEN /\ Raise("AssertionError: len(files) == 1")
            /\ UNCHANGED <<dest, scratch>>
       ELSE LET file == CHOOSE f \in scratch : TRUE
            IN  /\ dest' = WriteFile(dest, NewFile(file, config), MediaBody)
                /\ scratch' = scratch \ {file}
                /\ pc' = "fetch"
                /\ UNCHANGED fatal
    /\ EndOfTurn
    /\ UNCHANGED <<runs, queued, config, listing, result, newEntries, reported,
                   retryIdx, genIdx, entry, yielded, skipped, clearLog,
                   unitVars>>

\* main.py:325-327: clearDir, then the failed marker
FinishFailed ==
    /\ pc = "finish"
    /\ ~success
    /\ progress' = progress + 1
    /\ \E c \in clearDir(scratch) :
           /\ scratch' = c.left
           /\ clearLog' = GaveUp(c)
    /\ dest' = setStatusEx(dest, entry.id, entry.title, "failed", exceptions,
                           entry.raw_data)
    /\ pc' = "fetch"
    /\ EndOfTurn
    /\ UNCHANGED <<runs, queued, config, listing, result, newEntries, reported,
                   retryIdx, genIdx, entry, yielded, skipped, fatal, unitVars>>

Next ==
    \/ StartRun
    \/ \E i \in Items : TriageItem(i)
    \/ TriageEnd
    \/ Report
    \/ DeleteRetry
    \/ FetchExhausted
    \/ FetchRaises
    \/ \E d \in UploadDates : FetchReturns(d)
    \/ DownloadZero
    \/ DownloadNonZero
    \/ DownloadRaises
    \/ FinishSuccess
    \/ FinishFailed

Spec == Init /\ [][Next]_vars

----------------------------------------------------------------------------
(* The scanner on its own: GetState and DeleteFailure applied to any        *)
(* directory of a few files, also ones no run leaves behind                 *)

ScanIds == {IdA, IdB, IdAB}

\* file names of a download directory: markers and media of the ids, a
\* media file whose title holds another id, and a text file of no id
ScanNames ==
    { MarkerName(IdA, TitleOf(IdA), "failed"),
      MarkerName(IdA, TitleOf(IdA), "invalid-duration"),
      MarkerName(IdAB, TitleOf(IdAB), "failed"),
      EngineName(IdA, TitleOf(IdA), ".mkv"),
      EngineName(IdAB, TitleOf(IdAB), ".ogg"),
      EngineName(IdB, <<"a">>, ".mkv"),
      MarkerName(IdB, TitleOf(IdB), "failed"),
      <<"notes", ".txt">> }

ScanFile(name) ==
    [name |-> name,
     body |-> IF EndsWith(name, TxtExt)
              THEN [kind |-> "marker", status |-> "", exceptions |-> <<>>, raw |-> <<>>]
              ELSE MediaBody]

InitScan ==
    /\ \E names \in SUBSET ScanNames :
           /\ Cardinality(names) <= MaxScanFiles
           /\ dest = {ScanFile(n) : n \in names}
    /\ scratch = {}
    /\ pc = "scan"
    /\ runs = 0
    /\ queued = 0
    /\ config = NoConfig
    /\ listing = <<>>
    /\ result = NoResult
    /\ newEntries = <<>>
    /\ reported = FALSE
    /\ retryIdx = 0
    /\ genIdx = 0
    /\ entry = NoEntry
    /\ yielded = <<>>
    /\ skipped = <<>>
    /\ ytdlIdx = 0
    /\ retriesLeft = 0
    /\ success = FALSE
    /\ exceptions = <<>>
    /\ calls = 0
    /\ progress = 0
    /\ clearLog = FALSE
    /\ fatal = "none"
    /\ info = NoInfo
    /\ scanId = <<>>
    /\ scanRes = ""
    /\ scanPrev = {}
    /\ args = NoArgs
    /\ clr = NoClr

\* a call GetState(dest, id)
ScanGetState(id) ==
    /\ pc \in {"scan", "GetState", "DeleteFailure"}
    /\ pc' = "GetState"
    /\ scanId' = id
    /\ scanPrev' = dest
    /\ scanRes' = GetState(dest, id)
    /\ UNCHANGED <<dest, scratch, runs, queued, config, listing, result,
                   newEntries, reported, retryIdx, genIdx, entry, yielded, skipped,
                   ytdlIdx, retriesLeft, success, exceptions, calls, progress,
                   clearLog, fatal, info, args, clr>>

\* a call DeleteFailure(dest, id)
ScanDeleteFailure(id) ==
    /\ pc \in {"scan", "GetState", "DeleteFailure"}
    /\ pc' = "DeleteFailure"
    /\ scanId' = id
    /\ scanPrev' = dest
    /\ scanRes' = IF DeleteFailureRaises(dest, id) THEN InvalidState ELSE "None"
    /\ dest' = DeleteFailure(dest, id)
    /\ UNCHANGED <<scratch, runs, queued, config, listing, result,
                   newEntries, reported, retryIdx, genIdx, entry, yielded, skipped,
                   ytdlIdx, retriesLeft, success, exceptions, calls, progress,
                   clearLog, fatal, info, args, clr>>

NextScan ==
    \/ \E id \in ScanIds : ScanGetState(id)
    \/ \E id \in ScanIds : ScanDeleteFailure(id)

SpecScan == InitScan /\ [][NextScan]_vars

----------------------------------------------------------------------------
(* The start of main() on its own: parseArgs on any command line, then the  *)
(* steps of main() up to the listing request of download().  A path is the  *)
(* sequence of its components; a directory that does not exist yet reads as *)
(* an empty one (main() creates it).                                        *)

\* os.path.abspath: the working directory in front, "." components dropped
Cwd == <<"/cwd">>
IsName(c) == c # "."
abspath(path) == Cwd \o SelectSeq(path, IsName)

\* the directory arguments of a command line
ArgPaths == {<<"d">>, <<".", "d">>, <<"t">>}

\* --ffmpeg-path: absent, empty, or a path; shutil.which: None or a path
FfmpegArgs == {NoneS, Str(<<>>), Str(<<"ffmpeg">>)}
WhichResults == {NoneS, Str(<<"usr", "bin", "ffmpeg">>)}

\* Python truth of a string or None
TruthyS(x) == ~x.none /\ x.s # <<>>

\* args.ffmpeg_path or shutil.which("ffmpeg")
ffmpegPath(a) == IF TruthyS(a.ffmpeg_path) THEN a.ffmpeg_path ELSE a.which

\* the files the two directories can hold when main() starts
ArgFiles == {ScanFile(MarkerName(IdA, TitleOf(IdA), "failed")),
             ScanFile(EngineName(IdB, TitleOf(IdB), ".part"))}

\* the two configured directories are one directory of the file system
SameDirectory(a) == abspath(a.download_directory) = abspath(a.temp_directory)

InitArgs ==
    /\ \E v \in BOOLEAN, d \in ArgPaths, t \in ArgPaths, c \in BOOLEAN,
          ao \in BOOLEAN, rf \in BOOLEAN, f \in FfmpegArgs, w \in WhichResults :
           args = [valid |-> v, download_directory |-> d, temp_directory |-> t,
                   clear_temp_directory |-> c, audio_only |-> ao,
                   retry_failed |-> rf, ffmpeg_path |-> f, which |-> w]
    /\ dest \in SUBSET ArgFiles
    /\ scratch \in SUBSET Names(ArgFiles)
    /\ SameDirectory(args) => scratch = Names(dest)
    /\ pc = "args"
    /\ runs = 0
    /\ queued = 0
    /\ config = NoConfig
    /\ listing = <<>>
    /\ result = NoResult
    /\ newEntries = <<>>
    /\ reported = FALSE
    /\ retryIdx = 0
    /\ genIdx = 0
    /\ entry = NoEntry
    /\ yielded = <<>>
    /\ skipped = <<>>
    /\ ytdlIdx = 0
    /\ retriesLeft = 0
    /\ success = FALSE
    /\ exceptions = <<>>
    /\ calls = 0
    /\ progress = 0
    /\ clearLog = FALSE
    /\ fatal = "none"
    /\ info = NoInfo
    /\ scanId = <<>>
    /\ scanRes = ""
    /\ scanPrev = {}
    /\ clr = NoClr

\* the exception parseArgs raises for a command line, "none" when it
\* returns the Config (main.py:60-67); temp is the content of the
\* temporary directory
parseArgsError(a, temp) ==
    IF a.download_directory = a.temp_directory
    THEN "Temporary and download directories must be different!"
    ELSE IF ~a.clear_temp_directory /\ temp # {}
    THEN "Temporary directory is not empty!"
    ELSE IF ffmpegPath(a).none
    THEN "Ffmpeg not found!"
    ELSE "none"

\* main.py:336-352: parseArgs; a command line argparse rejects makes main()
\* print its examples and return -1
ArgsParse ==
    /\ pc = "args"
    /\ IF ~args.valid
       THEN /\ pc' = "usage"
            /\ UNCHANGED <<config, fatal>>
       ELSE IF parseArgsError(args, scratch) # "none"
       THEN /\ Raise(parseArgsError(args, scratch))
            /\ UNCHANGED config
       ELSE /\ config' = [AudioOnly |-> args.audio_only,
                          RetryFailed |-> args.retry_failed]
            /\ pc' = "parsed"
            /\ UNCHANGED fatal
    /\ UNCHANGED <<dest, scratch, runs, queued, listing, result, newEntries,
                   reported, retryIdx, genIdx, entry, yielded, skipped, ytdlIdx,
                   retriesLeft, success, exceptions, calls, progress, clearLog,
                   info, unitVars>>

\* main.py:354-359: the directories are made, clearDir(TemporaryDownloads);
\* what goes from the temporary directory goes from the download directory
\* when they are one directory
ArgsClear ==
    /\ pc = "parsed"
    /\ \E c \in clearDir(scratch) :
           /\ scratch' = c.left
           /\ clearLog' = GaveUp(c)
           /\ dest' = IF SameDirectory(args)
                      THEN {f \in dest : f.name \in c.left}
                      ELSE dest
    /\ pc' = "prepared"
    /\ UNCHANGED <<runs, queued, config, listing, result, newEntries,
                   reported, retryIdx, genIdx, entry, yielded, skipped, ytdlIdx,
                   retriesLeft, success, exceptions, calls, progress, fatal,
                   info, unitVars>>

\* main.py:364, 278-280 and 177: download() asks the engine for the listing
ArgsListing ==
    /\ pc = "prepared"
    /\ pc' = "triage"
    /\ UNCHANGED <<dest, scratch, runs, queued, config, listing, result,
                   newEntries, reported, retryIdx, genIdx, entry, yielded,
                   skipped, ytdlIdx, retriesLeft, success, exceptions, calls,
                   progress, clearLog, fatal, info, unitVars>>

NextArgs ==
    \/ ArgsParse
    \/ ArgsClear
    \/ ArgsListing

SpecArgs == InitArgs /\ [][NextArgs]_vars

----------------------------------------------------------------------------
(* clearDir on its own, pass by pass, for any directory and any retries     *)
(* argument.  scratch is the directory; clr.retries is the local retries.   *)

ClearFiles == {<<"x", ".part">>, <<"y", ".mkv">>, <<"z", ".opus">>}

InitClear ==
    /\ \E d \in BOOLEAN, n \in 0..MaxClearArg, files \in SUBSET ClearFiles :
           /\ ~d => files = {}
           /\ scratch = files
           /\ clr = [isdir |-> d, given |-> n, before |-> files, retries |-> n,
                     passes |-> 0, sleeps |-> 0]
    /\ dest = {}
    /\ pc = "clearDir"
    /\ runs = 0
    /\ queued = 0
    /\ config = NoConfig
    /\ listing = <<>>
    /\ result = NoResult
    /\ newEntries = <<>>
    /\ reported = FALSE
    /\ retryIdx = 0
    /\ genIdx = 0
    /\ entry = NoEntry
    /\ yielded = <<>>
    /\ skipped = <<>>
    /\ ytdlIdx = 0
    /\ retriesLeft = 0
    /\ success = FALSE
    /\ exceptions = <<>>
    /\ calls = 0
    /\ progress = 0
    /\ clearLog = FALSE
    /\ fatal = "none"
    /\ info = NoInfo
    /\ scanId = <<>>
    /\ scanRes = ""
    /\ scanPrev = {}
    /\ args = NoArgs

RetriesAfterPassMutCountDown(retries, somethingFailed) == retries - 1

\* utils.py:17-21: retries -= 1 after a pass with a failure, else retries = 0
RetriesAfterPass(retries, somethingFailed) ==
    IF somethingFailed THEN retries - 1 ELSE 0

\* one turn of the loop of utils.py:8: os.remove fails for the files F and
\* deletes the others; time.sleep(5) when F is not empty
ClearPass(F) ==
    /\ pc = "clearDir"
    /\ clr.isdir
    /\ clr.retries > 0
    /\ F \subseteq scratch
    /\ scratch' = F
    /\ clr' = [clr EXCEPT !.retries = RetriesAfterPass(@, F # {}),
                          !.passes = @ + 1,
                          !.sleeps = IF F # {} THEN @ + 1 ELSE @]
    /\ UNCHANGED <<dest, pc, runs, queued, config, listing, result, newEntries,
                   reported, retryIdx, genIdx, entry, yielded, skipped, ytdlIdx,
                   retriesLeft, success, exceptions, calls, progress, clearLog,
                   fatal, info, scanVars, args>>

\* the path is no directory, or the loop has ended: clearDir returns
ClearReturn ==
    /\ pc = "clearDir"
    /\ ~clr.isdir \/ clr.retries <= 0
    /\ pc' = "cleared"
    /\ clearLog' = (clr.given > 0 /\ clr.sleeps = clr.given)
    /\ UNCHANGED <<dest, scratch, runs, queued, config, listing, result,
                   newEntries, reported, retryIdx, genIdx, entry, yielded,
                   skipped, ytdlIdx, retriesLeft, success, exceptions, calls,
                   progress, fatal, info, scanVars, args, clr>>

NextClear ==
    \/ \E F \in SUBSET ClearFiles : ClearPass(F)
    \/ ClearReturn

\* clearDir is sequential code: a pass that can run does run
SpecClear == InitClear /\ [][NextClear]_vars /\ WF_vars(NextClear)

----------------------------------------------------------------------------
(* Claims *)

\* the files of dir whose name contains id; those of them that are markers
Matching(dir, id) == {f \in dir : Contains(f.name, id)}
IsMarkerFile(f) == f.name[Len(f.name)] = ".txt"
MarkersOf(dir, id) == {f \in Matching(dir, id) : IsMarkerFile(f)}

\* C1: for every directory content and every id, GetState raises the
\* inconsistent-state error exactly when two or more file names contain the
\* id, and otherwise returns OK iff a non-marker file containing the id
\* exists, Failed iff exactly one marker file containing it exists, and
\* Unprocessed in every other case.
C1_GetStateClassifies ==
    pc = "GetState" =>
        LET m == Matching(dest, scanId)
            k == MarkersOf(dest, scanId)
        IN  /\ (scanRes = InvalidState) <=> (Cardinality(m) >= 2)
            /\ Cardinality(m) < 2 =>
                  /\ (scanRes = OK) <=> (m \ k # {})
                  /\ (scanRes = Failed) <=> (Cardinality(k) = 1)
                  /\ (scanRes = Unprocessed) <=> (m \ k = {} /\ Cardinality(k) # 1)
            /\ scanRes \in {OK, Failed, Unprocessed, InvalidState}

\* C1 witness: GetState has raised on a directory where a marker and a media
\* file contain the id
C1_Witness ==
    /\ pc = "GetState"
    /\ scanRes = InvalidState
    /\ MarkersOf(dest, scanId) # {}
    /\ Matching(dest, scanId) \ MarkersOf(dest, scanId) # {}

\* C10: for every id whose state is Failed, after DeleteFailure(dir, id) the
\* prior marker file is absent, every other file is unchanged, and GetState
\* reports Unprocessed for the id.
C10_DeleteFailureResets ==
    (pc = "DeleteFailure" /\ GetState(scanPrev, scanId) = Failed) =>
        LET marker == CHOOSE f \in scanPrev : Contains(f.name, scanId)
        IN  /\ marker \notin dest
            /\ marker.name \notin Names(dest)
            /\ dest = scanPrev \ {marker}
            /\ GetState(dest, scanId) = Unprocessed

\* C10 witness: DeleteFailure has run for an id whose state was Failed, in a
\* directory that holds other files, one of them a marker
C10_Witness ==
    /\ pc = "DeleteFailure"
    /\ GetState(scanPrev, scanId) = Failed
    /\ \E f \in dest : IsMarkerFile(f)
    /\ \E f \in dest : ~IsMarkerFile(f)


\* C2: in every state reachable by runs of download() from an empty download
\* directory, whatever the listings (also one naming an id twice) and the
\* engine's outcomes, every id has at most one matching file in the download
\* directory.
C2_OneFilePerId ==
    \A id \in Ids : Cardinality(Matching(dest, id)) <= 1

\* C3: for each entry the configurations are tried in list order until one
\* reports success: a configuration that gives up after its 5 non-success
\* signals is followed by the next one, so the loop is left without success
\* (and the failed marker written) only when every configuration of the list
\* has been attempted.
C3_NextConfigAfterGiveUp ==
    (pc = "finish" /\ ~success) =>
        \/ ytdlIdx = Len(Ytdls(config))
        \/ ytdlIdx + 1 = Len(Ytdls(config))

\* the entries the stream was given
QueueLength == result.TotalIds - result.HasSeen

HasMarker(dir, id) == \E f \in dir : IsMarkerFile(f) /\ Contains(f.name, id)

\* C4: a deep-fetch failure never ends the enrichment stream: every entry
\* taken from the queue has been yielded or passed over with a marker in the
\* download directory, the two counts add up to the entries taken, a run
\* that returns has taken all N queued entries, and a run that was ended by
\* an exception was ended by the inconsistent-state error or an assertion,
\* never by the fetch failure.
C4_StreamContinues ==
    /\ pc \in {"fetch", "download", "finish", "done"} =>
          /\ genIdx = Len(yielded) + Len(skipped)
          /\ genIdx + Len(newEntries) = QueueLength
          /\ \A k \in 1..Len(skipped) : HasMarker(dest, skipped[k])
    /\ pc = "done" => genIdx = QueueLength
    /\ pc = "fatal" =>
          fatal \in {InvalidState, "AssertionError: parseDateString",
                     "AssertionError: len(files) == 1"}

\* C4 witness: the first queued entry's deep fetch raised, its marker is
\* written, and the second entry has been fetched and yielded
C4_Witness ==
    /\ pc = "download"
    /\ genIdx = 2
    /\ Len(skipped) = 1
    /\ \E f \in dest : /\ f.body.status = "failed"
                       /\ f.body.exceptions = <<ExtractError>>
                       /\ Contains(f.name, skipped[1])

\* the listing item reports no usable duration: the field is absent, or it
\* is None or the sentinel -1
MissingOrInvalid(i) == ~i.hasDuration \/ i.duration.none \/ i.duration.v = -1

\* C5: an entry whose deep fetch succeeds but whose duration is missing or
\* invalid (the field absent from the listing, None or the sentinel) gets an
\* invalid-duration marker and is never yielded to the orchestrator.
C5_InvalidDurationNeverYielded ==
    \A k \in 1..Len(yielded) : ~MissingOrInvalid(yielded[k].raw_data.item)

\* an item of the listing enters the processing set
Enters(i) ==
    LET state == GetState(dest, i.id)
    IN  state = Unprocessed \/ (state = Failed /\ config.RetryFailed)

RetriedItem(i) == GetState(dest, i.id) = Failed /\ config.RetryFailed

Skipped(i) == ~Enters(i)

\* C6: while the listing is read, the processing set holds exactly the listed
\* items whose state is Unprocessed, or Failed with RetryFailed enabled, in
\* listing order; HasSeen counts every other listed item; FailuresToRetry
\* holds exactly the ids of the Failed items that entered; and TotalIds =
\* HasSeen + the size of the processing set.
C6_TriagePartitions ==
    pc = "triage" =>
        /\ result.TotalIds = Len(listing)
        /\ [k \in 1..Len(newEntries) |-> newEntries[k].raw_data.item]
               = SelectSeq(listing, Enters)
        /\ \A k \in 1..Len(newEntries) :
               newEntries[k].state = GetState(dest, newEntries[k].id)
        /\ result.HasSeen = Len(SelectSeq(listing, Skipped))
        /\ result.FailuresToRetry
               = [k \in 1..Len(SelectSeq(listing, RetriedItem)) |->
                      SelectSeq(listing, RetriedItem)[k].id]
        /\ result.TotalIds = result.HasSeen + Len(newEntries)

\* C6 witness: with RetryFailed enabled the listing has named an id whose
\* state is Failed, and the id has entered the processing set
C6_Witness ==
    /\ pc = "triage"
    /\ config.RetryFailed
    /\ Len(listing) >= 1
    /\ result.FailuresToRetry = <<listing[Len(listing)].id>>
    /\ Len(newEntries) = 1
    /\ newEntries[1].state = Failed

\* the markers and the other files of a directory
MarkerFiles(dir) == {f \in dir : IsMarkerFile(f)}
MediaFiles(dir) == {f \in dir : ~IsMarkerFile(f)}

\* C7: when a configuration reported success and the scratch directory holds
\* exactly one file, that file is moved into the download directory under
\* the same name, or with its extension replaced by .ogg in audio-only mode,
\* the scratch directory is empty afterwards and no marker is written; when
\* it holds no file or two or more, the assertion fails and nothing is moved.
C7_SuccessPath ==
    [][ (pc = "finish" /\ success) =>
          IF Cardinality(scratch) = 1
          THEN LET file == CHOOSE f \in scratch : TRUE
                   expected == IF config.AudioOnly
                               THEN SubSeq(file, 1, Len(file) - 1) \o <<".ogg">>
                               ELSE file
               IN  /\ pc' = "fetch"
                   /\ fatal' = "none"
                   /\ scratch' = {}
                   /\ Names(dest') = Names(dest) \cup {expected}
                   /\ \E f \in dest' : f.name = expected /\ f.body.kind = "media"
                   /\ MarkerFiles(dest') = MarkerFiles(dest)
          ELSE /\ pc' = "fatal"
               /\ fatal' = "AssertionError: len(files) == 1"
               /\ dest' = dest
               /\ scratch' = scratch ]_vars

\* C7 witness: an audio-only run has moved its artifact: the download
\* directory holds an .ogg file and the scratch directory is empty
C7_Witness ==
    /\ pc = "fetch"
    /\ config.AudioOnly
    /\ Len(yielded) >= 1
    /\ scratch = {}
    /\ \E f \in dest : f.name[Len(f.name)] = ".ogg" /\ Contains(f.name, entry.id)

\* C8: when the engine has raised for every configuration of the list, a
\* failed marker is written for the entry that holds one exception per
\* configuration, in attempt order, and the entry's raw metadata; the
\* scratch directory is cleared (empty, unless clearDir used up its retries);
\* no file is moved into the download directory; and the run goes on to the
\* next entry.
C8_Exhaustion ==
    [][ (pc = "finish" /\ ~success /\ ytdlIdx = Len(Ytdls(config))) =>
          /\ pc' = "fetch"
          /\ fatal' = "none"
          /\ newEntries' = newEntries
          /\ \E f \in dest' :
                 /\ f.name = MarkerName(entry.id, entry.title, "failed")
                 /\ f.body.status = "failed"
                 /\ f.body.exceptions =
                        [k \in 1..Len(Ytdls(config)) |-> DownloadError(k)]
                 /\ f.body.raw = <<"deep", entry.id>>
          /\ scratch' = {} \/ clearLog'
          /\ MediaFiles(dest') = MediaFiles(dest) ]_vars

\* C8 witness: both configurations of a video run have raised and the marker
\* with the two exceptions is written
C8_Witness ==
    /\ pc = "fetch"
    /\ ~config.AudioOnly
    /\ \E f \in dest : /\ f.body.exceptions = <<DownloadError(1), DownloadError(2)>>
                       /\ Contains(f.name, entry.id)

\* the duration of a queued entry is unknown: the listing item has no
\* duration field, or it is None or the sentinel -1
UnknownDuration(e) == MissingOrInvalid(e.raw_data.item)

\* C9 as stated: in the order the processing set is handed on, for any entry
\* a before an entry b, a's duration is unknown or a.duration <= b.duration
\* with both known.
C9_AscendingUnknownFirst ==
    pc = "report" =>
        \A a \in 1..Len(newEntries), b \in 1..Len(newEntries) :
            a < b =>
                \/ UnknownDuration(newEntries[a])
                \/ /\ ~UnknownDuration(newEntries[b])
                   /\ newEntries[a].duration.v <= newEntries[b].duration.v

\* the duration is unknown or zero: what the sort key treats as lowest
UnknownOrZero(e) == UnknownDuration(e) \/ e.duration.v = 0

\* C9 as amended: for any entry a before an entry b, a's duration is
\* missing, unknown or zero, or b's duration is positive and a.duration <=
\* b.duration.
C9_AscendingFalsyFirst ==
    pc = "report" =>
        \A a \in 1..Len(newEntries), b \in 1..Len(newEntries) :
            a < b =>
                \/ UnknownOrZero(newEntries[a])
                \/ /\ ~UnknownOrZero(newEntries[b])
                   /\ newEntries[a].duration.v <= newEntries[b].duration.v

\* C9 witness: two entries are queued, the first of unknown duration and the
\* second of a known positive one
C9_Witness ==
    /\ pc = "report"
    /\ Len(newEntries) = 2
    /\ newEntries[1].duration.none
    /\ newEntries[2].duration.v >= 1

\* download() is about to make the first engine call for an entry
EntryStarts == pc = "download" /\ ytdlIdx = 0 /\ calls = 0

\* C11: at the moment download() starts processing an entry, before the
\* first engine call for it, the scratch directory contains no files,
\* whatever the outcomes of the earlier entries, deletions that fail inside
\* clearDir included.
C11_ScratchEmptyAtEntryStart ==
    EntryStarts => scratch = {}

\* the command line has a fatal configuration error: the two directories
\* denote the same path, the temporary directory holds files and the clear
\* flag is not given, or no ffmpeg is given or found
FatalConfig ==
    \/ SameDirectory(args)
    \/ (scratch # {} /\ ~args.clear_temp_directory)
    \/ ~TruthyS(args.ffmpeg_path) /\ args.which.none

\* C12: a run whose command line has a fatal configuration error aborts in
\* parseArgs: no file is deleted from either directory, and after the abort
\* no listing or fetch is requested and nothing is downloaded (the run takes
\* no further step).
C12_ConfigErrorAborts ==
    [][ /\ (pc = "args" /\ args.valid /\ FatalConfig) =>
              /\ pc' = "fatal"
              /\ fatal' # "none"
              /\ dest' = dest
              /\ scratch' = scratch
        /\ pc # "fatal" ]_vars

\* C13: downloadUrl calls the engine at most 5 times for one configuration
\* and one entry.  While it runs, fewer than 5 calls have been made and
\* retriesLeft = 5 - calls, so each call brings it nearer to its end; a call
\* that returns zero ends it at once with success; a non-zero signal is
\* followed by the next call of the same configuration, until the fifth,
\* which ends it with failure; it has returned failure only after exactly 5
\* calls.
C13_DownloadUrlBounded ==
    /\ [](pc = "download" =>
             /\ calls < DownloadRetries
             /\ retriesLeft = DownloadRetries - calls)
    /\ [](pc = "finish" =>
             /\ calls >= 1
             /\ calls <= DownloadRetries
             /\ (~success /\ ytdlIdx < Len(Ytdls(config))) =>
                    (calls = DownloadRetries /\ retriesLeft = 0))
    /\ [][ pc = "download" =>
              \/ /\ success'
                 /\ pc' = "finish"
                 /\ calls' = calls + 1
                 /\ ytdlIdx' = ytdlIdx
              \/ /\ ~success'
                 /\ pc' = "download"
                 /\ ytdlIdx' = ytdlIdx
                 /\ calls' = calls + 1
                 /\ calls' < DownloadRetries
              \/ /\ ~success'
                 /\ pc' = "finish"
                 /\ ytdlIdx' = ytdlIdx
                 /\ calls' = DownloadRetries
                 /\ calls = DownloadRetries - 1
              \/ /\ ~success'
                 /\ ytdlIdx' = ytdlIdx + 1
                 /\ Len(exceptions') = Len(exceptions) + 1 ]_vars

\* C13 witness: downloadUrl has returned failure after 5 non-zero signals,
\* no exception raised
C13_Witness ==
    /\ pc = "finish"
    /\ ~success
    /\ exceptions = <<>>
    /\ calls = DownloadRetries
    /\ retriesLeft = 0

\* C14: when the engine raises during an attempt with configuration i, the
\* exception is recorded after the earlier ones, the scratch directory is
\* cleared in the same step, before any further engine call (it is empty
\* unless clearDir used up its retries), and the next engine call, if any,
\* uses configuration i+1 with a fresh downloadUrl; the recorded exceptions
\* are those of configurations 1..ytdlIdx, one each, so they never
\* outnumber the configurations.
C14_RaiseMovesToNextConfig ==
    /\ [](pc \in {"download", "finish"} =>
             /\ Len(exceptions) <= Len(Ytdls(config))
             /\ Len(exceptions) = ytdlIdx
             /\ \A k \in 1..Len(exceptions) : exceptions[k] = DownloadError(k))
    /\ [][ (pc = "download" /\ exceptions' # exceptions) =>
              /\ exceptions' = Append(exceptions, DownloadError(ytdlIdx + 1))
              /\ scratch' = {} \/ clearLog'
              /\ ytdlIdx' = ytdlIdx + 1
              /\ IF ytdlIdx + 1 < Len(Ytdls(config))
                 THEN /\ pc' = "download"
                      /\ calls' = 0
                      /\ retriesLeft' = DownloadRetries
                 ELSE pc' = "finish" ]_vars

\* C14 witness: the first configuration of a video run has raised, its
\* exception is recorded, and the second configuration is about to be called
\* on an empty scratch directory
C14_Witness ==
    /\ pc = "download"
    /\ ~config.AudioOnly
    /\ ytdlIdx = 1
    /\ calls = 0
    /\ exceptions = <<DownloadError(1)>>
    /\ scratch = {}
    /\ ~clearLog

\* the ids of the entries the run has queued: those the generator has still
\* to take, those it has yielded and those it has passed over
ProcessingIds ==
    {newEntries[k].id : k \in 1..Len(newEntries)}
        \cup {yielded[k].id : k \in 1..Len(yielded)}
        \cup {skipped[k] : k \in 1..Len(skipped)}

\* C15: in every run, before the first deep fetch the counts have been
\* reported and the deletion loop has gone through all of FailuresToRetry,
\* so that no marker of a retried id is left; no deletion happens before
\* the report; and from the first deep fetch on no file name leaves the
\* download directory, so a marker written by enrichment or by the
\* orchestrator during the run is never deleted later in that run.
C15_ReportAndDeleteBeforeFetch ==
    /\ [](pc \in {"fetch", "download", "finish", "done"} =>
             /\ reported
             /\ retryIdx = Len(result.FailuresToRetry)
             /\ (genIdx = 0 =>
                    \A k \in 1..Len(result.FailuresToRetry) :
                        MarkersOf(dest, result.FailuresToRetry[k]) = {}))
    /\ [](pc \in {"triage", "report", "retry"} =>
             /\ genIdx = 0
             /\ yielded = <<>>
             /\ skipped = <<>>)
    /\ [](pc \in {"triage", "report"} => retryIdx = 0)
    /\ [](pc = "retry" => reported)
    /\ [][ (pc \in {"fetch", "download", "finish"}) =>
              Names(dest) \subseteq Names(dest') ]_vars

\* C15 witness: in a retry run the marker of the retried id was deleted, the
\* entry's deep fetch then failed again, and the marker written by
\* enrichment is in the download directory when the run has returned
C15_Witness ==
    /\ pc = "done"
    /\ reported
    /\ result.FailuresToRetry # <<>>
    /\ retryIdx = Len(result.FailuresToRetry)
    /\ Len(skipped) >= 1
    /\ skipped[1] = result.FailuresToRetry[1]
    /\ MarkersOf(dest, skipped[1]) # {}

\* C16: clearDir(dir, retries) always returns, and never raises on a
\* deletion failure.  It makes at most `retries` passes; a pass in which
\* every deletion succeeded leaves the directory empty and is the last one;
\* it sleeps once after each pass in which a deletion failed; and after
\* `retries` failing passes it returns with the remaining files, which are
\* files of the directory it was given, left in place.
C16_ClearDirTerminates ==
    /\ <>(pc = "cleared")
    /\ [](fatal = "none")
    /\ [](pc \in {"clearDir", "cleared"} =>
             /\ clr.passes <= clr.given
             /\ clr.sleeps <= clr.passes
             /\ clr.passes - clr.sleeps <= 1
             /\ (clr.passes - clr.sleeps = 1) => (scratch = {} /\ clr.retries = 0)
             /\ (clr.passes = clr.sleeps) => (clr.retries = clr.given - clr.sleeps)
             /\ scratch \subseteq clr.before)
    /\ [](pc = "cleared" =>
             IF clr.isdir /\ clr.given > 0
             THEN /\ scratch = {} => clr.passes = clr.sleeps + 1
                  /\ scratch # {} => (clr.passes = clr.given /\ clr.sleeps = clr.given)
                  /\ [left |-> scratch, passes |-> clr.passes, sleeps |-> clr.sleeps]
                         \in ClearRun(clr.before, clr.given, 0, 0)
             ELSE clr.passes = 0 /\ scratch = clr.before)
    /\ [][ /\ pc # "cleared"
           /\ (pc' = "clearDir") =>
                 /\ clr.passes' = clr.passes + 1
                 /\ scratch' \subseteq scratch
                 /\ clr.sleeps' = IF scratch' # {} THEN clr.sleeps + 1
                                  ELSE clr.sleeps ]_vars

\* C16 witness: clearDir has returned after using up its retries: every one
\* of its passes had a failing deletion, and a file is left in place
C16_Witness ==
    /\ pc = "cleared"
    /\ clr.given = MaxClearArg
    /\ clr.passes = clr.given
    /\ clr.sleeps = clr.given
    /\ scratch # {}
    /\ scratch # clr.before

ParseError == "AssertionError: parseDateString"

\* the generator takes the next entry of the queue in this step
TakesEntry == pc = "fetch" /\ genIdx' = genIdx + 1

\* what the claims say of a deep fetch that raised: a marker, no yield, the
\* stream goes on
FetchFailureContained ==
    /\ pc' = "fetch"
    /\ fatal' = "none"
    /\ yielded' = yielded
    /\ HasMarker(dest', Head(newEntries).id)

\* the stream raises the parse error: nothing is yielded, no marker is
\* written, and the run is over
ParseErrorPropagates ==
    /\ pc' = "fatal"
    /\ fatal' = ParseError
    /\ dest' = dest
    /\ yielded' = yielded
    /\ skipped' = skipped

\* once the run has ended with an exception, the only step is the start of
\* another run: no entry is fetched or downloaded any more in this one
NothingAfterFatal == pc = "fatal" => (runs' = runs + 1 /\ pc' = "triage")

\* C17 as stated: a deep-fetch failure is never raised to the consumer, and
\* every successfully fetched entry whose upload-date string is not exactly
\* 8 characters makes the stream raise: the entry is not yielded, no marker
\* is written for it, and nothing more is fetched or downloaded in the run.
C17_ShortDateAlwaysRaises ==
    [][ /\ TakesEntry =>
              IF ~info'.returned THEN FetchFailureContained
              ELSE IF Len(info'.upload_date) # 8 THEN ParseErrorPropagates
              ELSE fatal' = "none"
        /\ NothingAfterFatal ]_vars

\* C17 as amended: as above, for the fetched entries whose duration is
\* valid; a fetched entry whose duration is None or -1 gets its
\* invalid-duration marker and the stream goes on, whatever its upload date.
C17_ShortDateRaisesForValidDuration ==
    [][ /\ TakesEntry =>
              IF ~info'.returned THEN FetchFailureContained
              ELSE IF Head(newEntries).duration.none
                      \/ Head(newEntries).duration.v = -1
              THEN /\ FetchFailureContained
                   /\ skipped' = Append(skipped, Head(newEntries).id)
              ELSE IF Len(info'.upload_date) # 8 THEN ParseErrorPropagates
              ELSE /\ fatal' = "none"
                   /\ pc' = "download"
                   /\ yielded' = Append(yielded, Head(newEntries))
        /\ NothingAfterFatal ]_vars

\* C17 witness: the deep fetch of the first of two queued entries returned
\* a 7-character upload date; the run has ended with the parse error, the
\* download directory is empty and the second entry is still in the queue
C17_Witness ==
    /\ pc = "fatal"
    /\ fatal = ParseError
    /\ info.returned
    /\ Len(info.upload_date) = 7
    /\ genIdx = 1
    /\ Len(newEntries) = 1
    /\ yielded = <<>>
    /\ dest = {}

\* the files of dir of the ids the run has not queued
FilesOfOthers(dir) ==
    {f \in dir : \A id \in ProcessingIds : ~Contains(f.name, id)}

\* C18: a file leaves the download directory only in the deletion loop of a
\* run with RetryFailed enabled, and it is then the marker of an id selected
\* for retry.  In a run with RetryFailed disabled nothing is selected for
\* retry, every queued entry was Unprocessed at triage (so an id whose state
\* was Failed or OK is neither fetched nor downloaded), no file name leaves
\* the directory, and the files of the ids that are not queued stay as they
\* are, name and content.
C18_MarkersDeletedOnlyByRetry ==
    /\ [](~config.RetryFailed =>
             /\ result.FailuresToRetry = <<>>
             /\ pc # "retry"
             /\ \A k \in 1..Len(newEntries) : newEntries[k].state = Unprocessed
             /\ \A k \in 1..Len(yielded) : yielded[k].state = Unprocessed
             /\ (pc = "download" \/ pc = "finish") => entry.state = Unprocessed)
    /\ [][ /\ ~(Names(dest) \subseteq Names(dest')) =>
                 /\ pc = "retry"
                 /\ config.RetryFailed
                 /\ \E f \in MarkersOf(dest, result.FailuresToRetry[retryIdx + 1]) :
                        dest' = dest \ {f}
           /\ (~config.RetryFailed /\ ~Ended) =>
                 /\ Names(dest) \subseteq Names(dest')
                 /\ FilesOfOthers(dest) \subseteq dest' ]_vars

\* C18 witness: a run with RetryFailed disabled has listed an id whose state
\* is Failed, counted it as seen and queued another id, whose entry it has
\* processed; the marker of the first id is still there
C18_Witness ==
    /\ pc = "done"
    /\ ~config.RetryFailed
    /\ result.HasSeen = 1
    /\ result.TotalIds = 2
    /\ genIdx = 1
    /\ \E id \in Ids \ ProcessingIds : GetState(dest, id) = Failed

\* nothing of the run beyond triage has happened: no report, no deletion,
\* no deep fetch, no engine call
OnlyTriaged ==
    /\ ~reported
    /\ retryIdx = 0
    /\ genIdx = 0
    /\ yielded = <<>>
    /\ skipped = <<>>
    /\ calls = 0
    /\ progress = 0

\* C19: when triage reaches a listed id with two or more matching files in
\* the download directory, the run ends there with the inconsistent-state
\* error.  Nothing but triage has happened by then: no marker deleted, no
\* deep fetch, no download; and the download directory, which no step of
\* triage and no start of a run changes, is as it was before the run.
C19_InconsistentStateAborts ==
    /\ [](pc = "triage" => OnlyTriaged)
    /\ []((pc = "fatal" /\ fatal = InvalidState) => OnlyTriaged)
    /\ [][ /\ (pc = "triage" \/ Ended) => dest' = dest
           /\ ( /\ pc = "triage"
                /\ Len(listing') = Len(listing) + 1
                /\ Cardinality(Matching(dest, listing'[Len(listing')].id)) >= 2 ) =>
                 /\ pc' = "fatal"
                 /\ fatal' = InvalidState
                 /\ scratch' = scratch
                 /\ newEntries' = newEntries ]_vars

\* C19 witness: a second run has listed an id for which the first run left
\* two files, and has ended with the inconsistent-state error
C19_Witness ==
    /\ pc = "fatal"
    /\ fatal = InvalidState
    /\ runs = 2
    /\ result.TotalIds >= 1
    /\ \E id \in Ids : Cardinality(Matching(dest, id)) >= 2

\* C20: when a run has returned, every id it queued has exactly one file in
\* the download directory, a media file or a marker, so that a following
\* run with RetryFailed disabled counts the id as already seen.
C20_OneOutcomePerProcessedId ==
    pc = "done" =>
        \A id \in ProcessingIds :
            /\ Cardinality(Matching(dest, id)) = 1
            /\ AlreadySeen(GetState(dest, id), [NoConfig EXCEPT !.RetryFailed = FALSE])

====
